---- MODULE Spec2Model ----
(***************************************************************************)
(* Billing-credit calculator: the Angular component                        *)
(* CreditCalculatorComponent (src/src/app/app.ts, multi-service version)   *)
(* and the injectable CreditCalculationService (src/unnamed/part_000).     *)
(*                                                                         *)
(* Numbers.  A JavaScript number is an IEEE-754 binary64 value.  Amounts   *)
(* are modelled as binary64 values with round-to-nearest-even, so that an  *)
(* equality between two sums is decided the way the program decides it.    *)
(* TLC's integers are 32 bits wide, so a 53-bit significand is kept as a   *)
(* sequence of 15-bit limbs (least significant first).  Exponent overflow, *)
(* underflow and subnormals are not modelled (the amounts handled here are *)
(* far from both ends of the exponent range); -0 is identified with +0     *)
(* (they are === in JavaScript).                                           *)
(*                                                                         *)
(* Dates.  A Date is an instant, epoch milliseconds.  It is kept as the    *)
(* pair [day, ms] = (getTime() div 86400000, getTime() mod 86400000), for  *)
(* the same reason of width; a difference of instants is the pair of the   *)
(* differences.                                                            *)
(***************************************************************************)
EXTENDS Integers, Sequences, FiniteSets, TLC

(***************************************************************************)
(* Natural numbers of arbitrary size: sequences of limbs in base 2^15,     *)
(* least significant limb first, no leading (last) zero limb.              *)
(***************************************************************************)
Base == 2 ^ 15

RECURSIVE BitLenSmall(_)
BitLenSmall(n) == IF n = 0 THEN 0 ELSE 1 + BitLenSmall(n \div 2)

LimbBits == BitLenSmall(Base - 1)

RECURSIVE Strip(_)
Strip(a) ==
  IF a = <<>> THEN <<>>
  ELSE IF a[Len(a)] = 0 THEN Strip(SubSeq(a, 1, Len(a) - 1)) ELSE a

BigOfInt(n) == Strip(<<n % Base, (n \div Base) % Base, n \div (Base * Base)>>)

RECURSIVE AddCarry(_, _, _)
AddCarry(a, b, c) ==
  IF a = <<>> /\ b = <<>> THEN (IF c = 0 THEN <<>> ELSE <<c>>)
  ELSE LET x == (IF a = <<>> THEN 0 ELSE Head(a))
                + (IF b = <<>> THEN 0 ELSE Head(b)) + c
       IN  <<x % Base>> \o AddCarry(IF a = <<>> THEN <<>> ELSE Tail(a),
                                    IF b = <<>> THEN <<>> ELSE Tail(b),
                                    x \div Base)

BigAdd(a, b) == AddCarry(a, b, 0)

RECURSIVE SubBorrow(_, _, _)
SubBorrow(a, b, c) ==
  IF a = <<>> THEN <<>>
  ELSE LET x == Head(a) - (IF b = <<>> THEN 0 ELSE Head(b)) - c
       IN  <<x % Base>> \o SubBorrow(Tail(a),
                                     IF b = <<>> THEN <<>> ELSE Tail(b),
                                     IF x < 0 THEN 1 ELSE 0)

\* a - b, for a >= b
BigSub(a, b) == Strip(SubBorrow(a, b, 0))

RECURSIVE CmpFrom(_, _, _)
CmpFrom(a, b, i) ==
  IF i = 0 THEN 0
  ELSE IF a[i] < b[i] THEN -1
  ELSE IF a[i] > b[i] THEN 1
  ELSE CmpFrom(a, b, i - 1)

\* -1, 0, 1 as a < b, a = b, a > b
BigCmp(a, b) ==
  IF Len(a) < Len(b) THEN -1
  ELSE IF Len(a) > Len(b) THEN 1
  ELSE CmpFrom(a, b, Len(a))

RECURSIVE MulSmallCarry(_, _, _)
MulSmallCarry(a, k, c) ==
  IF a = <<>> THEN (IF c = 0 THEN <<>> ELSE <<c>>)
  ELSE LET x == Head(a) * k + c
       IN  <<x % Base>> \o MulSmallCarry(Tail(a), k, x \div Base)

\* a * k, for 0 <= k <= Base
BigMulSmall(a, k) == Strip(MulSmallCarry(a, k, 0))

RECURSIVE BigMul(_, _)
BigMul(a, b) ==
  IF b = <<>> \/ a = <<>> THEN <<>>
  ELSE LET rest == BigMul(a, Tail(b))
       IN  BigAdd(BigMulSmall(a, Head(b)),
                  IF rest = <<>> THEN <<>> ELSE <<0>> \o rest)

RECURSIVE DivSmallFrom(_, _, _, _)
DivSmallFrom(a, d, i, r) ==
  IF i = 0 THEN [q |-> <<>>, r |-> r]
  ELSE LET x    == r * Base + a[i]
           rest == DivSmallFrom(a, d, i - 1, x % d)
       IN  [q |-> rest.q \o <<x \div d>>, r |-> rest.r]

\* quotient and remainder of a by d, for 1 <= d <= Base
BigDivSmall(a, d) ==
  LET res == DivSmallFrom(a, d, Len(a), 0)
  IN  [q |-> Strip(res.q), r |-> res.r]

RECURSIVE Zeros(_)
Zeros(n) == IF n = 0 THEN <<>> ELSE <<0>> \o Zeros(n - 1)

\* a * 2^n
BigShl(a, n) ==
  IF a = <<>> THEN <<>>
  ELSE Zeros(n \div LimbBits) \o BigMulSmall(a, 2 ^ (n % LimbBits))

\* floor(a / 2^n)
BigShr(a, n) ==
  IF n \div LimbBits >= Len(a) THEN <<>>
  ELSE BigDivSmall(SubSeq(a, n \div LimbBits + 1, Len(a)), 2 ^ (n % LimbBits)).q

BitLen(a) ==
  IF a = <<>> THEN 0 ELSE LimbBits * (Len(a) - 1) + BitLenSmall(a[Len(a)])

BigOdd(a) == a # <<>> /\ a[1] % 2 = 1

(***************************************************************************)
(* binary64.  A finite value is (-1)^neg * m * 2^e with m = 0 (and e = 0,  *)
(* neg = FALSE) or 2^52 <= m < 2^53; "inf" carries a sign; "nan" is NaN.   *)
(***************************************************************************)
Precision == 53

Max(a, b) == IF a >= b THEN a ELSE b

Zero == [k |-> "fin", neg |-> FALSE, m |-> <<>>, e |-> 0]
NaN == [k |-> "nan", neg |-> FALSE, m |-> <<>>, e |-> 0]
Inf(neg) == [k |-> "inf", neg |-> neg, m |-> <<>>, e |-> 0]

\* n mod 2^s
LowBits(n, s) == BigSub(n, BigShl(BigShr(n, s), s))

\* ties to even: c compares the bits dropped with half a unit in the last place
RoundsUp(c, sticky, odd) == c > 0 \/ (c = 0 /\ (sticky \/ odd))

\* m * 2^e with m < 2^54 brought back under 2^53 (m = 2^53 after a carry)
Normal(neg, m, e) ==
  IF BitLen(m) > Precision
  THEN [k |-> "fin", neg |-> neg, m |-> BigShr(m, 1), e |-> e + 1]
  ELSE [k |-> "fin", neg |-> neg, m |-> m, e |-> e]

\* Round for n # 0 with s = BitLen(n) - Precision bits to drop
RoundAt(neg, n, e, sticky, s) ==
  IF s <= 0
  THEN [k |-> "fin", neg |-> neg, m |-> BigShl(n, -s), e |-> e + s]
  ELSE Normal(neg,
              IF RoundsUp(BigCmp(LowBits(n, s), BigShl(<<1>>, s - 1)),
                          sticky, BigOdd(BigShr(n, s)))
              THEN BigAdd(BigShr(n, s), <<1>>) ELSE BigShr(n, s),
              e + s)

\* The binary64 value nearest to (-1)^neg * n * 2^e (ties to even), where a
\* true `sticky` says the exact value is a little above n * 2^e (n then has
\* at least Precision + 2 bits).
Round(neg, n, e, sticky) ==
  IF n = <<>> THEN Zero ELSE RoundAt(neg, n, e, sticky, BitLen(n) - Precision)

\* The number n, an integer with |n| < 2^31
FromInt(n) == Round(n < 0, BigOfInt(IF n < 0 THEN -n ELSE n), 0, FALSE)

IsZero(x) == x.k = "fin" /\ x.m = <<>>

FNeg(x) == IF x.k = "nan" \/ IsZero(x) THEN x ELSE [x EXCEPT !.neg = ~x.neg]

\* x * y
FMul(x, y) ==
  IF x.k = "nan" \/ y.k = "nan" THEN NaN
  ELSE IF x.k = "inf" \/ y.k = "inf"
       THEN (IF IsZero(x) \/ IsZero(y) THEN NaN ELSE Inf(x.neg # y.neg))
  ELSE Round(x.neg # y.neg, BigMul(x.m, y.m), x.e + y.e, FALSE)

\* the quotient qr.q * 2^e, inexact when the remainder qr.r is not 0
RoundQuotient(neg, qr, e) == Round(neg, qr.q, e, qr.r # 0)

\* x / d for an integer d with |d| <= 2^15: every divisor of the program is
\* an integer (a day count, or the literal 100)
FDivInt(x, d) ==
  IF x.k = "nan" THEN NaN
  ELSE IF x.k = "inf" THEN Inf(x.neg # (d < 0))
  ELSE IF d = 0 THEN (IF IsZero(x) THEN NaN ELSE Inf(x.neg))
  ELSE RoundQuotient(x.neg # (d < 0),
                     BigDivSmall(BigShl(x.m, 2 * LimbBits), IF d < 0 THEN -d ELSE d),
                     x.e - 2 * LimbBits)

\* the sum of two finite values of magnitudes a * 2^e and b * 2^e
AddAligned(xneg, a, yneg, b, e) ==
  Round(IF xneg = yneg \/ BigCmp(a, b) >= 0 THEN xneg ELSE yneg,
        IF xneg = yneg THEN BigAdd(a, b)
        ELSE IF BigCmp(a, b) >= 0 THEN BigSub(a, b) ELSE BigSub(b, a),
        e, FALSE)

\* x + y
FAdd(x, y) ==
  IF x.k = "nan" \/ y.k = "nan" THEN NaN
  ELSE IF x.k = "inf"
       THEN (IF y.k = "inf" /\ y.neg # x.neg THEN NaN ELSE x)
  ELSE IF y.k = "inf" THEN y
  ELSE IF IsZero(x) THEN y
  ELSE IF IsZero(y) THEN x
  ELSE IF x.e - y.e > Precision + 2 THEN x
  ELSE IF y.e - x.e > Precision + 2 THEN y
  ELSE AddAligned(x.neg, BigShl(x.m, Max(0, x.e - y.e)),
                  y.neg, BigShl(y.m, Max(0, y.e - x.e)),
                  IF x.e >= y.e THEN y.e ELSE x.e)

\* -1, 0, 1 as x < y, x = y, x > y (finite x and y): the sign of x - y
Sign(d) == IF IsZero(d) THEN 0 ELSE IF d.neg THEN -1 ELSE 1

FCmp(x, y) == Sign(FAdd(x, FNeg(y)))

\* JavaScript's x <= y, x < y and x === y on numbers: false when either is NaN
FLe(x, y) ==
  /\ x.k # "nan" /\ y.k # "nan"
  /\ IF x.k = "inf" THEN (x.neg \/ (y.k = "inf" /\ ~y.neg))
     ELSE IF y.k = "inf" THEN ~y.neg
     ELSE FCmp(x, y) <= 0

FEq(x, y) == x.k # "nan" /\ y.k # "nan" /\ x = y

FLt(x, y) == FLe(x, y) /\ ~FEq(x, y)

\* the number a decimal literal n/100 denotes, e.g. 79.99 as Cents(7999)
Cents(n) == FDivInt(FromInt(n), 100)

(***************************************************************************)
(* Dates                                                                   *)
(***************************************************************************)
MsPerDay == 1000 * 3600 * 24

\* The date strings of the form fields: "" (not filled in) or a date-only
\* ISO string, as an <input type="date"> and toISOString().split('T')[0]
\* produce them.
DateStrings == {"", "2024-01-01", "2024-01-10", "2024-01-31"}

\* new Date(s) for a date-only ISO string s: midnight UTC of that day
ParseDate(s) ==
  [day |-> CASE s = "2023-12-31" -> 19722
             [] s = "2024-01-01" -> 19723
             [] s = "2024-01-02" -> 19724
             [] s = "2024-01-09" -> 19731
             [] s = "2024-01-10" -> 19732
             [] s = "2024-01-30" -> 19752
             [] s = "2024-01-31" -> 19753,
   ms  |-> 0]

\* a < b and a > b on Dates compare getTime()
DateLt(a, b) == a.day < b.day \/ (a.day = b.day /\ a.ms < b.ms)
DateGe(a, b) == ~DateLt(a, b)
DateGt(a, b) == DateLt(b, a)

\* Math.ceil(a / b) for integers a and b > 0
CeilDiv(a, b) == -((-a) \div b)

\* calculateDaysBetween without the + 1 that counts both ends
calculateDaysBetweenExclusive(startDate, endDate) ==
  LET dayDiff == endDate.day - startDate.day
      msDiff  == endDate.ms - startDate.ms
  IN  dayDiff + CeilDiv(msDiff, MsPerDay)

\* CreditCalculatorComponent.calculateDaysBetween: timeDiff is
\* (endDate.day - startDate.day) * MsPerDay + (endDate.ms - startDate.ms)
calculateDaysBetween(startDate, endDate) ==
  LET dayDiff == endDate.day - startDate.day
      msDiff  == endDate.ms - startDate.ms
  IN  (dayDiff + CeilDiv(msDiff, MsPerDay)) + 1

(***************************************************************************)
(* CreditCalculatorComponent                                               *)
(***************************************************************************)
VARIABLES
  services,            \* signal<ServiceItem[]>
  nextServiceId,       \* signal(1)
  taxRate,             \* signal(13.0)
  isCalculating,       \* signal(false)
  calculationResult,   \* signal<CombinedCreditResult | null>
  alert,               \* the alert() dialog on screen, NoAlert when none
  serviceCalculations  \* calculateCredit's local list while alert() blocks it

componentVars == <<services, nextServiceId, taxRate, isCalculating,
                   calculationResult, alert, serviceCalculations>>

Names == {"", "Internet Service"}
Prices == {Zero, Cents(7999)}

\* a ServiceItem without its id: a named and priced service with any dates,
\* or the dates of the sample with any name and price
ServiceFields ==
  [serviceName: {"Internet Service"}, invoiceStartDate: DateStrings,
   invoiceEndDate: DateStrings, pricePaid: {Cents(7999)},
   actualServiceStartDate: DateStrings]
  \cup
  [serviceName: Names, invoiceStartDate: {"2024-01-01"},
   invoiceEndDate: {"2024-01-31"}, pricePaid: Prices,
   actualServiceStartDate: {"2024-01-10"}]

ServiceItem(id, f) ==
  [id |-> id, serviceName |-> f.serviceName,
   invoiceStartDate |-> f.invoiceStartDate, invoiceEndDate |-> f.invoiceEndDate,
   pricePaid |-> f.pricePaid, actualServiceStartDate |-> f.actualServiceStartDate]

Null == [null |-> TRUE]
undefined == [undefined |-> TRUE]
NoAlert == [kind |-> "none", service |-> ""]

\* line 136: a required field is not filled in, or the price is not positive
MissingData(service) ==
  \/ service.serviceName = ""
  \/ service.invoiceStartDate = ""
  \/ service.invoiceEndDate = ""
  \/ service.actualServiceStartDate = ""
  \/ FLe(service.pricePaid, Zero)

\* line 146: invoiceStart >= invoiceEnd
PeriodInvalid(service) ==
  DateGe(ParseDate(service.invoiceStartDate), ParseDate(service.invoiceEndDate))

\* line 165: serviceStart < invoiceStart
StartsBeforePeriod(service) ==
  DateLt(ParseDate(service.actualServiceStartDate), ParseDate(service.invoiceStartDate))

\* line 171 left out: no service start is after the period
StartsAfterPeriodNever(service) == FALSE

\* line 171: serviceStart > invoiceEnd
StartsAfterPeriod(service) ==
  DateGt(ParseDate(service.actualServiceStartDate), ParseDate(service.invoiceEndDate))

\* The first loop (lines 135-150) from item i on: the alert it raises, or
\* NoAlert when every item passes
RECURSIVE ValidateFrom(_, _)
ValidateFrom(svcs, i) ==
  IF i > Len(svcs) THEN NoAlert
  ELSE IF MissingData(svcs[i])
       THEN [kind |-> "fill in all fields",
             service |-> IF svcs[i].serviceName = "" THEN "Unnamed Service"
                         ELSE svcs[i].serviceName]
  ELSE IF PeriodInvalid(svcs[i])
       THEN [kind |-> "end must be after start", service |-> svcs[i].serviceName]
  ELSE ValidateFrom(svcs, i + 1)

\* line 184 without its division: the whole price as the daily rate
WholePrice(pricePaid, totalBillingDays) == pricePaid

\* line 184: service.pricePaid / totalBillingDays
DailyRate(pricePaid, totalBillingDays) == FDivInt(pricePaid, totalBillingDays)

\* lines 177-204: the CreditCalculation of one service
ServiceCalculation(service, rate) ==
  LET invoiceStart       == ParseDate(service.invoiceStartDate)
      invoiceEnd         == ParseDate(service.invoiceEndDate)
      serviceStart       == ParseDate(service.actualServiceStartDate)
      totalBillingDays   == calculateDaysBetween(invoiceStart, invoiceEnd)
      daysWithoutService == calculateDaysBetween(invoiceStart, serviceStart) - 1
      dailyRate          == DailyRate(service.pricePaid, totalBillingDays)
      creditAmount       == FMul(dailyRate, FromInt(Max(0, daysWithoutService)))
      taxOnCredit        == FMul(creditAmount, FDivInt(rate, 100))
  IN  [id |-> service.id,
       serviceName |-> service.serviceName,
       totalBillingDays |-> totalBillingDays,
       daysWithoutService |-> Max(0, daysWithoutService),
       dailyRate |-> dailyRate,
       creditAmount |-> creditAmount,
       taxOnCredit |-> taxOnCredit,
       totalCreditWithTax |-> FAdd(creditAmount, taxOnCredit)]

\* line 206 with unshift for push: the new calculation goes first
Unshift(calcs, c) == <<c>> \o calcs

\* line 206: serviceCalculations.push(serviceCalculation)
Push(calcs, c) == Append(calcs, c)

\* The second loop (lines 159-209) from item i on, with the locals as they
\* are when item i is reached: it ends at an alert or past the last item
RECURSIVE CalculateFrom(_, _, _, _)
CalculateFrom(svcs, rate, i, loc) ==
  IF i > Len(svcs) THEN loc
  ELSE IF StartsBeforePeriod(svcs[i])
       THEN [loc EXCEPT !.alert = [kind |-> "start before invoice start",
                                   service |-> svcs[i].serviceName]]
  ELSE IF StartsAfterPeriod(svcs[i])
       THEN [loc EXCEPT !.alert = [kind |-> "start after invoice end",
                                   service |-> svcs[i].serviceName]]
  ELSE LET c == ServiceCalculation(svcs[i], rate)
       IN  CalculateFrom(svcs, rate, i + 1,
             [calcs |-> Push(loc.calcs, c),
              totalCreditAmount |-> FAdd(loc.totalCreditAmount, c.creditAmount),
              totalTaxOnCredit  |-> FAdd(loc.totalTaxOnCredit, c.taxOnCredit),
              alert |-> NoAlert])

\* lines 154-156: the locals before the second loop
NoCalculations ==
  [calcs |-> <<>>, totalCreditAmount |-> Zero, totalTaxOnCredit |-> Zero,
   alert |-> NoAlert]

\* lines 211-216
CombinedCreditResult(loc) ==
  [services |-> loc.calcs,
   totalCreditAmount |-> loc.totalCreditAmount,
   totalTaxOnCredit |-> loc.totalTaxOnCredit,
   grandTotalWithTax |-> FAdd(loc.totalCreditAmount, loc.totalTaxOnCredit)]

\* calculateCredit(), up to its return or to the alert() that blocks it.
\* No handler runs while a dialog is on screen.
calculateCredit ==
  /\ alert = NoAlert
  /\ UNCHANGED <<services, nextServiceId, taxRate>>
  /\ IF Len(services) = 0
     THEN /\ alert' = [kind |-> "add a service", service |-> ""]
          /\ UNCHANGED <<isCalculating, calculationResult, serviceCalculations>>
     ELSE IF ValidateFrom(services, 1) # NoAlert
     THEN /\ alert' = ValidateFrom(services, 1)
          /\ UNCHANGED <<isCalculating, calculationResult, serviceCalculations>>
     ELSE LET loc == CalculateFrom(services, taxRate, 1, NoCalculations)
          IN  IF loc.alert # NoAlert
              THEN /\ isCalculating' = TRUE
                   /\ alert' = loc.alert
                   /\ serviceCalculations' = loc.calcs
                   /\ UNCHANGED calculationResult
              ELSE /\ calculationResult' = CombinedCreditResult(loc)
                   /\ isCalculating' = FALSE
                   /\ UNCHANGED <<alert, serviceCalculations>>

\* lines 167 and 173 left out: the dialog closes and calculateCredit
\* returns without isCalculating.set(false)
dismissAlertOnly ==
  /\ alert # NoAlert
  /\ alert' = NoAlert
  /\ serviceCalculations' = <<>>
  /\ UNCHANGED <<services, nextServiceId, taxRate, isCalculating,
                 calculationResult>>

\* The user closes the dialog: alert() returns and calculateCredit runs to
\* its return (lines 167-168 and 173-174 after the alerts of the second loop)
dismissAlert ==
  /\ alert # NoAlert
  /\ alert' = NoAlert
  /\ serviceCalculations' = <<>>
  /\ isCalculating' = IF alert.kind \in {"start before invoice start",
                                         "start after invoice end"}
                      THEN FALSE ELSE isCalculating
  /\ UNCHANGED <<services, nextServiceId, taxRate, calculationResult>>

\* clearCalculation()
clearCalculation ==
  /\ alert = NoAlert
  /\ calculationResult' = Null
  /\ UNCHANGED <<services, nextServiceId, taxRate, isCalculating, alert,
                 serviceCalculations>>

(***************************************************************************)
(* CreditCalculatorComponent, the version with one service in its form     *)
(* (app.ts lines 273-383)                                                  *)
(***************************************************************************)
VARIABLES
  singleService  \* that component: its signals and the alert() on screen,
                 \* undefined where there is no such component

\* the form fields (lines 275-278)
FormFields ==
  [invoiceStartDate: DateStrings, invoiceEndDate: DateStrings,
   pricePaid: Prices, actualServiceStartDate: DateStrings]

\* the component with the form filled in as f (lines 275-283)
SingleComponent(f) ==
  [invoiceStartDate |-> f.invoiceStartDate, invoiceEndDate |-> f.invoiceEndDate,
   pricePaid |-> f.pricePaid, actualServiceStartDate |-> f.actualServiceStartDate,
   taxRate |-> FromInt(13), isCalculating |-> FALSE, calculationResult |-> Null,
   alert |-> NoAlert]

\* lines 304-327: the alert the checks raise, NoAlert when all pass
SingleValidate(c) ==
  IF \/ c.invoiceStartDate = "" \/ c.invoiceEndDate = ""
     \/ c.actualServiceStartDate = "" \/ FLe(c.pricePaid, Zero)
  THEN [kind |-> "fill in all fields", service |-> ""]
  ELSE IF DateGe(ParseDate(c.invoiceStartDate), ParseDate(c.invoiceEndDate))
  THEN [kind |-> "end must be after start", service |-> ""]
  ELSE IF DateLt(ParseDate(c.actualServiceStartDate), ParseDate(c.invoiceStartDate))
  THEN [kind |-> "start before invoice start", service |-> ""]
  ELSE IF DateGt(ParseDate(c.actualServiceStartDate), ParseDate(c.invoiceEndDate))
  THEN [kind |-> "start after invoice end", service |-> ""]
  ELSE NoAlert

\* private calculateDaysBetween of this version (lines 366-371)
singleCalculateDaysBetween(startDate, endDate) ==
  LET dayDiff == endDate.day - startDate.day
      msDiff  == endDate.ms - startDate.ms
  IN  (dayDiff + CeilDiv(msDiff, MsPerDay)) + 1

\* lines 332-356: the CreditCalculation of the form
SingleCalculation(c) ==
  LET invoiceStart       == ParseDate(c.invoiceStartDate)
      invoiceEnd         == ParseDate(c.invoiceEndDate)
      serviceStart       == ParseDate(c.actualServiceStartDate)
      totalBillingDays   == singleCalculateDaysBetween(invoiceStart, invoiceEnd)
      daysWithoutService == singleCalculateDaysBetween(invoiceStart, serviceStart) - 1
      dailyRate          == FDivInt(c.pricePaid, totalBillingDays)
      creditAmount       == FMul(dailyRate, FromInt(Max(0, daysWithoutService)))
      taxOnCredit        == FMul(creditAmount, FDivInt(c.taxRate, 100))
  IN  [totalBillingDays |-> totalBillingDays,
       daysWithoutService |-> Max(0, daysWithoutService),
       dailyRate |-> dailyRate,
       creditAmount |-> creditAmount,
       taxOnCredit |-> taxOnCredit,
       totalCreditWithTax |-> FAdd(creditAmount, taxOnCredit)]

\* calculateCredit() of this version (lines 303-360)
singleCalculateCredit ==
  /\ singleService # undefined
  /\ singleService.alert = NoAlert
  /\ singleService' =
       IF SingleValidate(singleService) # NoAlert
       THEN [singleService EXCEPT !.alert = SingleValidate(singleService)]
       ELSE [singleService EXCEPT
               !.calculationResult = SingleCalculation(singleService),
               !.isCalculating = FALSE]

\* the user closes the dialog of this version: calculateCredit returns
singleDismissAlert ==
  /\ singleService # undefined
  /\ singleService.alert # NoAlert
  /\ singleService' = [singleService EXCEPT !.alert = NoAlert]

\* clearCalculation() of this version (lines 362-364)
singleClearCalculation ==
  /\ singleService # undefined
  /\ singleService.alert = NoAlert
  /\ singleService' = [singleService EXCEPT !.calculationResult = Null]

(***************************************************************************)
(* CreditCalculationService                                                *)
(***************************************************************************)
VARIABLES
  invoice,        \* the Invoice handed to calculateCredit
  creditRequest,  \* the CreditRequest handed to calculateCredit
  creditResult    \* the CreditResult it returned, Null before the call

serviceVars == <<invoice, creditRequest, creditResult>>

\* CreditCalculationService.calculateDaysBetween
serviceCalculateDaysBetween(startDate, endDate) ==
  LET dayDiff == endDate.day - startDate.day
      msDiff  == endDate.ms - startDate.ms
  IN  (dayDiff + CeilDiv(msDiff, MsPerDay)) + 1

\* calculateItemCredit (lines 48-92)
calculateItemCredit(item, request, rate) ==
  LET originalAmount == FMul(item.unitPrice, FromInt(item.quantity))
      partial == /\ request.isPartialCredit
                 /\ request.creditStartDate # undefined
                 /\ request.creditEndDate # undefined
      billingPeriodDays ==
        serviceCalculateDaysBetween(item.serviceStartDate, item.serviceEndDate)
      creditDays ==
        serviceCalculateDaysBetween(request.creditStartDate, request.creditEndDate)
      creditPercentage ==
        IF partial THEN FDivInt(FromInt(creditDays), billingPeriodDays)
        ELSE FromInt(1)
      proratedAmount ==
        IF partial THEN FMul(originalAmount, creditPercentage) ELSE originalAmount
      creditAmount == proratedAmount
      taxOnCredit == FMul(creditAmount, FDivInt(rate, 100))
  IN  [originalAmount |-> originalAmount,
       proratedAmount |-> proratedAmount,
       creditAmount |-> creditAmount,
       taxOnCredit |-> taxOnCredit,
       totalCreditWithTax |-> FAdd(creditAmount, taxOnCredit),
       creditPercentage |-> creditPercentage,
       daysInBillingPeriod |-> billingPeriodDays,
       daysCredited |-> IF partial THEN creditDays ELSE billingPeriodDays]

\* invoice.items.find(i => i.id === itemId): the index of the first such
\* item, 0 when there is none
RECURSIVE FindItem(_, _, _)
FindItem(items, itemId, i) ==
  IF i > Len(items) THEN 0
  ELSE IF items[i].id = itemId THEN i
  ELSE FindItem(items, itemId, i + 1)

\* lines 23-29: the calculations of the items named from position k on
RECURSIVE ItemCalculations(_, _, _)
ItemCalculations(inv, request, k) ==
  IF k > Len(request.itemsToCredit) THEN <<>>
  ELSE LET i == FindItem(inv.items, request.itemsToCredit[k], 1)
       IN  (IF i = 0 THEN <<>>
            ELSE <<calculateItemCredit(inv.items[i], request, inv.taxRate)>>)
           \o ItemCalculations(inv, request, k + 1)

\* calculations.reduce((sum, calc) => sum + calc[field], 0) from position k,
\* with sum as it is there
RECURSIVE Reduce(_, _, _, _)
Reduce(calculations, field, k, sum) ==
  IF k > Len(calculations) THEN sum
  ELSE Reduce(calculations, field, k + 1, FAdd(sum, calculations[k][field]))

\* the CreditResult of calculateCredit(inv, request) at the instant now
CreditResult(inv, request, now) ==
  LET calculations == ItemCalculations(inv, request, 1)
      totalCredit  == Reduce(calculations, "creditAmount", 1, Zero)
      totalTax     == Reduce(calculations, "taxOnCredit", 1, Zero)
  IN  [request |-> request,
       calculations |-> calculations,
       totalCredit |-> totalCredit,
       totalTax |-> totalTax,
       finalCreditAmount |-> FAdd(totalCredit, totalTax),
       calculationDate |-> now]

(***************************************************************************)
(* The day-span function on its own: its copies applied to two instants    *)
(***************************************************************************)
VARIABLES
  startDate,  \* the first argument of calculateDaysBetween
  endDate,    \* the second argument
  daysBetween \* what the copies returned, Null before the call

spanVars == <<startDate, endDate, daysBetween>>

vars == <<services, nextServiceId, taxRate, isCalculating, calculationResult,
          alert, serviceCalculations, singleService, invoice, creditRequest,
          creditResult, startDate, endDate, daysBetween>>

\* the component and the service as constructed and the day-span function
\* not called: what each specification leaves aside stays like this
ComponentAside ==
  /\ services = <<>> /\ nextServiceId = 1 /\ taxRate = FromInt(13)
  /\ isCalculating = FALSE /\ calculationResult = Null
  /\ alert = NoAlert /\ serviceCalculations = <<>>
  /\ singleService = undefined

ServiceAside ==
  /\ invoice = undefined /\ creditRequest = undefined /\ creditResult = Null

SpanAside ==
  /\ startDate = undefined /\ endDate = undefined /\ daysBetween = Null

(***************************************************************************)
(* SpecCalc: calculateCredit of the component on every service list of at  *)
(* most MaxServices items over the field values above.  addService and     *)
(* updateService build each of these lists.                                *)
(***************************************************************************)
MaxServices == 2

InitCalc ==
  /\ \/ /\ \E n \in 0..MaxServices :
            \E f \in [1..n -> ServiceFields] :
              services = [i \in 1..n |-> ServiceItem(i, f[i])]
        /\ singleService = undefined
     \/ /\ services = <<>>
        /\ \E f \in FormFields : singleService = SingleComponent(f)
  /\ nextServiceId = Len(services) + 1
  /\ taxRate = FromInt(13)
  /\ isCalculating = FALSE
  /\ calculationResult = Null
  /\ alert = NoAlert
  /\ serviceCalculations = <<>>
  /\ ServiceAside /\ SpanAside

NextCalc ==
  \/ calculateCredit /\ UNCHANGED <<singleService, serviceVars, spanVars>>
  \/ dismissAlert /\ UNCHANGED <<singleService, serviceVars, spanVars>>
  \/ clearCalculation /\ UNCHANGED <<singleService, serviceVars, spanVars>>
  \/ singleCalculateCredit /\ UNCHANGED <<componentVars, serviceVars, spanVars>>
  \/ singleDismissAlert /\ UNCHANGED <<componentVars, serviceVars, spanVars>>
  \/ singleClearCalculation /\ UNCHANGED <<componentVars, serviceVars, spanVars>>

SpecCalc == InitCalc /\ [][NextCalc]_vars

(***************************************************************************)
(* Spec: the multi-service component from its construction on, under the   *)
(* handlers of its template, with ids up to MaxId.                         *)
(***************************************************************************)
MaxId == 2

\* loadSampleData in a January: toISOString() gives the UTC date of a local
\* midnight, which is the day before in a time zone east of UTC
SampleData ==
  {[serviceName |-> "Internet Service", invoiceStartDate |-> "2024-01-01",
    invoiceEndDate |-> "2024-01-31", pricePaid |-> Cents(7999),
    actualServiceStartDate |-> "2024-01-10"],
   [serviceName |-> "Internet Service", invoiceStartDate |-> "2023-12-31",
    invoiceEndDate |-> "2024-01-30", pricePaid |-> Cents(7999),
    actualServiceStartDate |-> "2024-01-09"]}

\* addService called without arguments: every parameter at its default
NoArguments ==
  [serviceName |-> "", invoiceStartDate |-> "", invoiceEndDate |-> "",
   pricePaid |-> Zero, actualServiceStartDate |-> ""]

\* a || b for strings: the empty string is falsy
OrElse(a, b) == IF a = "" THEN b ELSE a

\* a || b for numbers: 0 and NaN are falsy
NumberOrElse(a, b) == IF IsZero(a) \/ a.k = "nan" THEN b ELSE a

\* line 99 with the length of the list for nextServiceId(): the new service
\* takes the position it gets as its id
NewServiceByPosition(svcs, id, f) ==
  LET lastService == IF Len(svcs) > 0 THEN svcs[Len(svcs)] ELSE NoArguments
  IN  [id |-> Len(svcs) + 1,
       serviceName |-> f.serviceName,
       invoiceStartDate |->
         OrElse(f.invoiceStartDate, lastService.invoiceStartDate),
       invoiceEndDate |-> OrElse(f.invoiceEndDate, lastService.invoiceEndDate),
       pricePaid |-> NumberOrElse(f.pricePaid, lastService.pricePaid),
       actualServiceStartDate |->
         OrElse(f.actualServiceStartDate, lastService.actualServiceStartDate)]

\* lines 96-105: the new service for arguments f after the list svcs
NewService(svcs, id, f) ==
  LET lastService == IF Len(svcs) > 0 THEN svcs[Len(svcs)] ELSE NoArguments
  IN  [id |-> id,
       serviceName |-> f.serviceName,
       invoiceStartDate |->
         OrElse(f.invoiceStartDate, lastService.invoiceStartDate),
       invoiceEndDate |-> OrElse(f.invoiceEndDate, lastService.invoiceEndDate),
       pricePaid |-> NumberOrElse(f.pricePaid, lastService.pricePaid),
       actualServiceStartDate |->
         OrElse(f.actualServiceStartDate, lastService.actualServiceStartDate)]

\* the state after the constructor: loadSampleData has added one service
Init ==
  /\ \E f \in SampleData : services = <<NewService(<<>>, 1, f)>>
  /\ nextServiceId = 2
  /\ taxRate = FromInt(13)
  /\ isCalculating = FALSE
  /\ calculationResult = Null
  /\ alert = NoAlert
  /\ serviceCalculations = <<>>
  /\ singleService = undefined
  /\ ServiceAside /\ SpanAside

\* addService() from the template
addService ==
  /\ alert = NoAlert
  /\ nextServiceId <= MaxId
  /\ services' = Append(services, NewService(services, nextServiceId, NoArguments))
  /\ nextServiceId' = nextServiceId + 1
  /\ UNCHANGED <<taxRate, isCalculating, calculationResult, alert,
                 serviceCalculations>>

\* services.filter(s => s.id !== serviceId)
RECURSIVE Without(_, _)
Without(svcs, serviceId) ==
  IF svcs = <<>> THEN <<>>
  ELSE (IF Head(svcs).id # serviceId THEN <<Head(svcs)>> ELSE <<>>)
       \o Without(Tail(svcs), serviceId)

\* removeService(serviceId)
removeService(serviceId) ==
  /\ alert = NoAlert
  /\ services' = Without(services, serviceId)
  /\ UNCHANGED <<nextServiceId, taxRate, isCalculating, calculationResult, alert,
                 serviceCalculations>>

\* the values the handlers hand to updateService for each field
UpdateValues ==
  [id |-> 1..MaxId,
   serviceName |-> {""},
   invoiceStartDate |-> {"2024-01-01"},
   invoiceEndDate |-> {"2024-01-01"},
   pricePaid |-> {Zero},
   actualServiceStartDate |-> {"2023-12-31"}]

\* updateService(serviceId, field, value)
updateService(serviceId, field, value) ==
  /\ alert = NoAlert
  /\ services' = [i \in 1..Len(services) |->
                    IF services[i].id = serviceId
                    THEN [services[i] EXCEPT ![field] = value]
                    ELSE services[i]]
  /\ UNCHANGED <<nextServiceId, taxRate, isCalculating, calculationResult, alert,
                 serviceCalculations>>

Next ==
  \/ addService /\ UNCHANGED <<singleService, serviceVars, spanVars>>
  \/ \E serviceId \in 1..MaxId :
       removeService(serviceId) /\ UNCHANGED <<singleService, serviceVars, spanVars>>
  \/ \E serviceId \in 1..MaxId :
       \E field \in DOMAIN UpdateValues :
         \E value \in UpdateValues[field] :
           /\ updateService(serviceId, field, value)
           /\ UNCHANGED <<singleService, serviceVars, spanVars>>
  \/ calculateCredit /\ UNCHANGED <<singleService, serviceVars, spanVars>>
  \/ dismissAlert /\ UNCHANGED <<singleService, serviceVars, spanVars>>
  \/ clearCalculation /\ UNCHANGED <<singleService, serviceVars, spanVars>>

Spec == Init /\ [][Next]_vars

(***************************************************************************)
(* SpecIds: the service list of the constructed component under            *)
(* addService, removeService and updateService of a field other than id    *)
(***************************************************************************)
NextIds ==
  \/ addService /\ UNCHANGED <<singleService, serviceVars, spanVars>>
  \/ \E serviceId \in 1..MaxId :
       removeService(serviceId) /\ UNCHANGED <<singleService, serviceVars, spanVars>>
  \/ \E serviceId \in 1..MaxId :
       \E field \in DOMAIN UpdateValues \ {"id"} :
         \E value \in UpdateValues[field] :
           /\ updateService(serviceId, field, value)
           /\ UNCHANGED <<singleService, serviceVars, spanVars>>

SpecIds == Init /\ [][NextIds]_vars

(***************************************************************************)
(* SpecService: CreditCalculationService.calculateCredit on every invoice  *)
(* of at most MaxItems items and every credit request over the values      *)
(* below.                                                                  *)
(***************************************************************************)
MaxItems == 2

ItemIds == <<"ITEM-001", "ITEM-002", "ITEM-003", "ITEM-004">>

\* the Dates of invoices and requests, built as createSampleInvoice builds
\* its own: new Date('2024-01-01')
ServiceDates == {ParseDate(d) : d \in {"2024-01-01", "2024-01-02", "2024-01-31"}}

\* an InvoiceItem without its id: 79.99 and 15.00 are the sample's prices
InvoiceItemFields ==
  [unitPrice: {Cents(7999), Cents(1500)}, quantity: {1},
   serviceStartDate: ServiceDates, serviceEndDate: ServiceDates]

InvoiceItem(i, f) ==
  [id |-> ItemIds[i], unitPrice |-> f.unitPrice, quantity |-> f.quantity,
   serviceStartDate |-> f.serviceStartDate, serviceEndDate |-> f.serviceEndDate]

\* the sequences of distinct ids among the first MaxItems ids
IdLists ==
  {ids \in UNION {[1..n -> {ItemIds[i] : i \in 1..MaxItems}] : n \in 0..MaxItems} :
     \A a, b \in 1..Len(ids) : a # b => ids[a] # ids[b]}

\* the instants at which calculateCredit may read the clock (new Date())
Clock == {[day |-> 19753, ms |-> 0], [day |-> 19753, ms |-> 1]}

InitService ==
  /\ \E n \in 1..MaxItems :
       \E f \in [1..n -> InvoiceItemFields] :
         invoice = [items |-> [i \in 1..n |-> InvoiceItem(i, f[i])],
                    taxRate |-> FromInt(13)]
  /\ creditRequest \in [itemsToCredit: IdLists,
                        creditStartDate: ServiceDates \cup {undefined},
                        creditEndDate: ServiceDates \cup {undefined},
                        isPartialCredit: BOOLEAN]
  /\ creditResult = Null
  /\ ComponentAside /\ SpanAside

\* calculateCredit(invoice, creditRequest)
serviceCalculateCredit ==
  /\ creditResult = Null
  /\ \E now \in Clock : creditResult' = CreditResult(invoice, creditRequest, now)
  /\ UNCHANGED <<invoice, creditRequest>>

NextService ==
  serviceCalculateCredit /\ UNCHANGED <<componentVars, singleService, spanVars>>

SpecService == InitService /\ [][NextService]_vars

(***************************************************************************)
(* SpecDays: the copies of calculateDaysBetween on every pair of           *)
(* instants of MaxDayOffset + 1 consecutive days at the times of day below *)
(***************************************************************************)
MaxDayOffset == 3

\* midnight, one millisecond past it, noon, one millisecond before midnight
TimesOfDay == {0, 1, MsPerDay \div 2, MsPerDay - 1}

Instants ==
  [day : {ParseDate("2024-01-01").day + n : n \in 0..MaxDayOffset}, ms : TimesOfDay]

InitDays ==
  /\ startDate \in Instants
  /\ endDate \in Instants
  /\ daysBetween = Null
  /\ ComponentAside /\ ServiceAside

\* calculateDaysBetween(startDate, endDate), by the two versions of the
\* component and by the service
callDaysBetween ==
  /\ daysBetween = Null
  /\ daysBetween' = [component |-> calculateDaysBetween(startDate, endDate),
                     single |-> singleCalculateDaysBetween(startDate, endDate),
                     service |-> serviceCalculateDaysBetween(startDate, endDate)]
  /\ UNCHANGED <<startDate, endDate>>

NextDays ==
  callDaysBetween /\ UNCHANGED <<componentVars, singleService, serviceVars>>

SpecDays == InitDays /\ [][NextDays]_vars

(***************************************************************************)
(* Claims about calculateCredit of the component (SpecCalc)                *)
(***************************************************************************)
\* the calendar day of a filled-in date field, as days since the epoch
DayOf(dateString) == ParseDate(dateString).day

Positive(x) == x.k = "fin" /\ x.m # <<>> /\ ~x.neg

\* what the contract rejects on the fields both versions have: a missing
\* date, a price <= 0, a billing period that is empty or inverted, a service
\* start outside it; with a list, a missing name as well
RejectedFields(item) ==
  \/ item.invoiceStartDate = ""
  \/ item.invoiceEndDate = ""
  \/ item.actualServiceStartDate = ""
  \/ ~Positive(item.pricePaid)
  \/ DayOf(item.invoiceEndDate) <= DayOf(item.invoiceStartDate)
  \/ DayOf(item.actualServiceStartDate) < DayOf(item.invoiceStartDate)
  \/ DayOf(item.actualServiceStartDate) > DayOf(item.invoiceEndDate)

Rejected(item) == item.serviceName = "" \/ RejectedFields(item)

\* C1: calculateCredit produces no result for a service list that holds a
\* rejected item, at whatever position: calculationResult, null before the
\* call, is still null after it.  The same holds for the rejected form of
\* the single-service version.
C1_NoResultForRejectedItem ==
  /\ (\E i \in 1..Len(services) : Rejected(services[i]))
       => calculationResult = Null
  /\ (singleService # undefined /\ RejectedFields(singleService))
       => singleService.calculationResult = Null

\* C1 witness: the call has ended in an alert for a list whose first item is
\* fine and whose second item starts service after its billing period
C1_Witness ==
  /\ Len(services) = 2
  /\ ~Rejected(services[1])
  /\ services[2].actualServiceStartDate # ""
  /\ services[2].invoiceEndDate # ""
  /\ DayOf(services[2].actualServiceStartDate) > DayOf(services[2].invoiceEndDate)
  /\ alert.kind = "start after invoice end"
  /\ calculationResult = Null

\* the item of scenario 1
Scenario1(item) ==
  /\ item.invoiceStartDate = "2024-01-01"
  /\ item.invoiceEndDate = "2024-01-31"
  /\ item.actualServiceStartDate = "2024-01-10"
  /\ item.pricePaid = Cents(7999)
  /\ item.serviceName # ""

\* lo <= x < hi, amounts in cents
Within(x, lo, hi) == FLe(Cents(lo), x) /\ FLt(x, Cents(hi))

\* C2 as stated: for the one item of scenario 1 and a tax rate of 13,
\* totalBillingDays = 31, daysWithoutService = 8, creditAmount is
\* pricePaid * 8 / 31, 20.64 to the cent, and totalCreditWithTax is 23.32
\* to the cent.
C2_Scenario1AsStated ==
  (/\ Len(services) = 1 /\ Scenario1(services[1]) /\ taxRate = FromInt(13)
   /\ calculationResult # Null)
  => LET c == calculationResult.services[1]
     IN  /\ c.totalBillingDays = 31
         /\ c.daysWithoutService = 8
         /\ c.creditAmount = FDivInt(FMul(services[1].pricePaid, FromInt(8)), 31)
         /\ Within(c.creditAmount, 2063, 2065)
         /\ Within(c.totalCreditWithTax, 2331, 2333)

\* C2 amended: for the one item of scenario 1 and a tax rate of 13,
\* totalBillingDays = 31, daysWithoutService = 9 (1 to 9 January),
\* creditAmount is (pricePaid / 31) * 9, 23.22 to the cent, taxOnCredit is
\* 3.02 to the cent and totalCreditWithTax is 26.24 to the cent.
C2_Scenario1 ==
  (/\ Len(services) = 1 /\ Scenario1(services[1]) /\ taxRate = FromInt(13)
   /\ calculationResult # Null)
  => LET c == calculationResult.services[1]
     IN  /\ c.totalBillingDays = 31
         /\ c.daysWithoutService = 9
         /\ c.creditAmount = FMul(FDivInt(services[1].pricePaid, 31), FromInt(9))
         /\ Within(c.creditAmount, 2322, 2323)
         /\ Within(c.taxOnCredit, 301, 302)
         /\ Within(c.totalCreditWithTax, 2624, 2625)

\* C2 witness: the calculation of scenario 1 has produced its result
C2_Witness ==
  /\ Len(services) = 1 /\ Scenario1(services[1]) /\ taxRate = FromInt(13)
  /\ calculationResult # Null
  /\ Len(calculationResult.services) = 1

\* C4: every per-item calculation of a result has
\* 0 <= daysWithoutService <= totalBillingDays and
\* 0 <= creditAmount <= pricePaid of its item.
C4_CreditWithinPrice ==
  calculationResult # Null =>
    \A i \in 1..Len(calculationResult.services) :
      LET c == calculationResult.services[i]
      IN  /\ 0 <= c.daysWithoutService
          /\ c.daysWithoutService <= c.totalBillingDays
          /\ FLe(Zero, c.creditAmount)
          /\ i <= Len(services)
          /\ FLe(c.creditAmount, services[i].pricePaid)

\* C4 witness: a result for an item whose service starts on the last day of
\* its billing period, with a credit above zero
C4_Witness ==
  /\ calculationResult # Null
  /\ \E i \in 1..Len(calculationResult.services) :
       /\ services[i].actualServiceStartDate = services[i].invoiceEndDate
       /\ Positive(calculationResult.services[i].creditAmount)
       /\ calculationResult.services[i].daysWithoutService > 0

\* C6: a result holds one calculation per service, the i-th with the id and
\* the name of the i-th service.
C6_OnePerServiceInOrder ==
  calculationResult # Null =>
    /\ Len(calculationResult.services) = Len(services)
    /\ \A i \in 1..Len(services) :
         /\ calculationResult.services[i].id = services[i].id
         /\ calculationResult.services[i].serviceName = services[i].serviceName

\* C6 witness: a result for a list of two services with different periods
C6_Witness ==
  /\ calculationResult # Null
  /\ Len(services) = 2
  /\ Len(calculationResult.services) = 2
  /\ services[1].invoiceEndDate # services[2].invoiceEndDate

\* the sum of a field over a sequence of calculations, added up in order
RECURSIVE SumFrom(_, _, _, _)
SumFrom(calcs, field, k, sum) ==
  IF k > Len(calcs) THEN sum
  ELSE SumFrom(calcs, field, k + 1, FAdd(sum, calcs[k][field]))

SumOf(calcs, field) == SumFrom(calcs, field, 1, Zero)

\* the totals calculateCredit of the component gives for a service list
TotalsOf(svcs) ==
  CombinedCreditResult(CalculateFrom(svcs, taxRate, 1, NoCalculations))

SameTotals(r1, r2) ==
  /\ r1.totalCreditAmount = r2.totalCreditAmount
  /\ r1.totalTaxOnCredit = r2.totalTaxOnCredit
  /\ r1.grandTotalWithTax = r2.grandTotalWithTax

\* C5 as stated: in a result of either mode the totals are exactly the sums
\* of the per-item values, the grand total is the sum of the per-item
\* totalCreditWithTax as well, and permuting the items leaves the totals of
\* the component unchanged.
C5_TotalsAreExactSums ==
  /\ calculationResult # Null =>
       /\ calculationResult.totalCreditAmount
            = SumOf(calculationResult.services, "creditAmount")
       /\ calculationResult.totalTaxOnCredit
            = SumOf(calculationResult.services, "taxOnCredit")
       /\ calculationResult.grandTotalWithTax
            = FAdd(SumOf(calculationResult.services, "creditAmount"),
                   SumOf(calculationResult.services, "taxOnCredit"))
       /\ calculationResult.grandTotalWithTax
            = SumOf(calculationResult.services, "totalCreditWithTax")
       /\ \A p \in Permutations(1..Len(services)) :
            SameTotals(TotalsOf([i \in 1..Len(services) |-> services[p[i]]]),
                       calculationResult)
  /\ creditResult # Null =>
       /\ creditResult.totalCredit = SumOf(creditResult.calculations, "creditAmount")
       /\ creditResult.totalTax = SumOf(creditResult.calculations, "taxOnCredit")
       /\ creditResult.finalCreditAmount
            = FAdd(creditResult.totalCredit, creditResult.totalTax)
       /\ creditResult.finalCreditAmount
            = SumOf(creditResult.calculations, "totalCreditWithTax")

\* C7 as stated: when calculateCredit reports a failure, no item's credit
\* has been computed and isCalculating has not been set to true.
C7_ValidationBeforeCalculation ==
  alert # NoAlert => (isCalculating = FALSE /\ serviceCalculations = <<>>)

(***************************************************************************)
(* Claims about the day span (SpecDays) and about the service              *)
(* (SpecService)                                                           *)
(***************************************************************************)
WholeDay(d) == d.ms = 0

\* C3: for whole calendar dates with end >= start every copy returns
\* (end - start in days) + 1, which is 1 for end = start and at least 1.
C3_InclusiveDayCount ==
  (/\ daysBetween # Null
   /\ WholeDay(startDate) /\ WholeDay(endDate)
   /\ endDate.day >= startDate.day)
  => /\ daysBetween.component = (endDate.day - startDate.day) + 1
     /\ daysBetween.single = (endDate.day - startDate.day) + 1
     /\ daysBetween.service = (endDate.day - startDate.day) + 1
     /\ daysBetween.component >= 1
     /\ endDate = startDate => daysBetween.component = 1

\* C3 witness: the span of two whole dates two days apart has been computed
C3_Witness ==
  /\ daysBetween # Null
  /\ WholeDay(startDate) /\ WholeDay(endDate)
  /\ endDate.day = startDate.day + 2
  /\ daysBetween.component = 3

Midnight(d) == [day |-> d.day, ms |-> 0]

\* C10 as stated: the day span depends only on the calendar days of its
\* arguments: it is what the span of the two midnights is, and 1 for two
\* instants of one day.
C10_TimeOfDayIgnored ==
  daysBetween # Null =>
    /\ daysBetween.component
         = calculateDaysBetween(Midnight(startDate), Midnight(endDate))
    /\ daysBetween.service
         = serviceCalculateDaysBetween(Midnight(startDate), Midnight(endDate))
    /\ startDate.day = endDate.day => daysBetween.component = 1

\* C8 as stated: no calculation of either mode yields a day count <= 0 or
\* a negative credit amount.
C8_NoSilentNonPositiveSpan ==
  /\ calculationResult # Null =>
       \A i \in 1..Len(calculationResult.services) :
         /\ calculationResult.services[i].totalBillingDays >= 1
         /\ FLe(Zero, calculationResult.services[i].creditAmount)
  /\ creditResult # Null =>
       \A i \in 1..Len(creditResult.calculations) :
         /\ creditResult.calculations[i].daysInBillingPeriod >= 1
         /\ creditResult.calculations[i].daysCredited >= 1
         /\ FLe(Zero, creditResult.calculations[i].creditAmount)

\* a request handled by the partial-credit branch (line 61)
IsPartial(request) ==
  /\ request.isPartialCredit
  /\ request.creditStartDate # undefined
  /\ request.creditEndDate # undefined

\* C9 as stated: whenever a daily rate or a credit percentage is computed,
\* the billing-period day count it is divided by is at least 1.
C9_DivisorAtLeastOne ==
  /\ calculationResult # Null =>
       \A i \in 1..Len(calculationResult.services) :
         calculationResult.services[i].totalBillingDays >= 1
  /\ (creditResult # Null /\ IsPartial(creditRequest)) =>
       \A i \in 1..Len(creditResult.calculations) :
         creditResult.calculations[i].daysInBillingPeriod >= 1

(***************************************************************************)
(* Claims about the service list and about the frame of calculateCredit    *)
(* (SpecIds, Spec)                                                         *)
(***************************************************************************)
\* the ids of a service list
IdsOf(svcs) == {svcs[i].id : i \in 1..Len(svcs)}

\* C11: under addService, removeService and updateService of a field other
\* than id, the ids of the list are pairwise distinct and all below
\* nextServiceId; nextServiceId never goes down and an id that enters the list
\* is the nextServiceId of that moment, so an id once handed out, freed or
\* not, is never handed out again.
C11_IdsDistinctAndNeverReused ==
  /\ [](/\ \A i, j \in 1..Len(services) :
             i # j => services[i].id # services[j].id
        /\ \A i \in 1..Len(services) : services[i].id < nextServiceId)
  /\ [][/\ nextServiceId' >= nextServiceId
        /\ \A id \in IdsOf(services') \ IdsOf(services) :
             id = nextServiceId /\ nextServiceId' > id]_vars

\* C11 witness: service 1 has been removed and a service added since, which
\* has the id 2 and not the freed id 1
C11_Witness ==
  /\ Len(services) = 1
  /\ services[1].id = 2
  /\ services[1].invoiceStartDate = ""
  /\ nextServiceId = 3

\* C12: a calculateCredit call that ends without a result, from the alert it
\* raises to its return, leaves services, taxRate, nextServiceId and
\* calculationResult as they were; and once any call has returned
\* isCalculating is false.
C12_FailedCallChangesNothing ==
  /\ [](alert = NoAlert => isCalculating = FALSE)
  /\ [][(alert # NoAlert \/ alert' # NoAlert) =>
          UNCHANGED <<services, taxRate, nextServiceId, calculationResult>>]_vars

\* C12 witness: a result is stored and a later call has failed in the second
\* loop, its alert on screen
C12_Witness ==
  /\ calculationResult # Null
  /\ alert.kind = "start before invoice start"
  /\ isCalculating = TRUE

====
